---- MODULE Spec2Model ----
(***************************************************************************)
(* A model of impl/internal/dht/getput.go: the Get and Put operations over *)
(* a DHT traversal (startGetTraversal, its per-node DoQuery function and   *)
(* its supervisory goroutine).  The traversal engine, the node transport   *)
(* and the caller's context are the environment.                           *)
(***************************************************************************)
EXTENDS Integers, Sequences, FiniteSets, TLC

\* ------------------------------------------------------------------ bounds

\* Number of nodes the traversal engine may query during one call.
NumNodes == 2
\* Largest sequence number of the modelled int64: the range is
\* MinInt64 .. MaxSeq with MinInt64 = -(MaxSeq + 1), as in two's complement.
MaxSeq == 1

Nodes == 1..NumNodes
MinInt64 == -(MaxSeq + 1)
Seqs == MinInt64..MaxSeq

\* ------------------------------------------------------------ byte strings

\* Byte strings are sequences of small numbers.  K0 is the public key the
\* target is derived from, K1 another key, Salt the caller's salt.
K0 == <<1>>
K1 == <<2>>
Salt == <<3>>
Keys == {K0, K1}
\* Values a node may return: the bytes of K0 followed by Salt (so that its
\* hash is the target too), and two other values.
Values == {K0 \o Salt, <<4>>, <<5>>}
NilBytes == <<>>

\* sha1.Sum: an injective digest.
Sha1(b) == <<"sha1", b>>
\* The target of the call: the digest of public key and salt.
Target == Sha1(K0 \o Salt)

\* A signature over (publicKey, salt, seq, value); ZeroSig is the zero array,
\* which verifies for nothing.
SigOf(k, salt, seq, v) == <<k, salt, seq, v>>
ZeroSig == <<>>
\* bep44.Verify
Verify(k, salt, seq, v, sig) == sig = SigOf(k, salt, seq, v)

\* ------------------------------------------------------------------ errors

NoErr == "nil"
NotFound == "value not found"
CtxErr == "context canceled"
StartErr == "starting nodes error"
WriteErr == "put error"

\* ----------------------------------------------------------------- replies

\* tqr.ClosestData: nil, the empty string, or the node's token (node n
\* issues token n).
NilData == -1
EmptyString == 0
TokenOf(n) == n

\* The replies node n may send (res.Reply.R): a value, a public key, an
\* optional sequence number (r.Seq is a pointer; Seq is 0 when it is nil), a
\* signature (Sig = 1: a valid one for the reply's own fields, Sig = 0:
\* garbage) and an optional write token (r.Token is a pointer).  A reply
\* whose value alone hashes to the target is either an immutable item (another
\* key, no valid signature) or an item that is a valid mutable hit as well
\* (the target's key, a valid signature); its sequence number is 0 or none.
Replies(n, vals, toks) ==
    { [V |-> v, K |-> k, HasSeq |-> TRUE, Seq |-> s, Sig |-> g, HasToken |-> ht, Token |-> TokenOf(n)] :
        v \in vals \ {K0 \o Salt}, k \in Keys, s \in Seqs, g \in {0, 1}, ht \in toks }
    \cup
    { [V |-> v, K |-> k, HasSeq |-> FALSE, Seq |-> 0, Sig |-> g, HasToken |-> ht, Token |-> TokenOf(n)] :
        v \in vals \ {K0 \o Salt}, k \in Keys, g \in {0, 1}, ht \in toks }
    \cup
    { [V |-> v, K |-> k, HasSeq |-> hs, Seq |-> 0, Sig |-> IF k = K0 THEN 1 ELSE 0,
       HasToken |-> ht, Token |-> TokenOf(n)] :
        v \in vals \cap {K0 \o Salt}, k \in Keys, hs \in BOOLEAN, ht \in toks }

\* A reply of node n that differs from others in its token only.
TokenReplies(n, toks) ==
    { [V |-> NilBytes, K |-> K1, HasSeq |-> FALSE, Seq |-> 0, Sig |-> 0, HasToken |-> ht, Token |-> TokenOf(n)] :
        ht \in toks }

\* The signature a reply carries: g = 1 is the valid signature over the
\* reply's own key, sequence and value, g = 0 is garbage.
ReplySig(r) == IF r.Sig = 1 THEN SigOf(r.K, Salt, r.Seq, r.V) ELSE ZeroSig

\* FullGetResult
FullGetResult(seq, v, sig, mutable) ==
    [Seq |-> seq, V |-> v, Sig |-> sig, Mutable |-> mutable]


\* Classify with the mutable test made before the immutable one.
ClassifyMutableFirst(r) ==
    IF Sha1(r.K \o Salt) = Target /\ r.HasSeq
          /\ Verify(r.K, Salt, r.Seq, r.V, ReplySig(r)) THEN "mut"
    ELSE IF Sha1(r.V) = Target THEN "imm"
    ELSE "none"

\* The candidate a reply is offered as on vChan (lines 52-70): "imm" for an
\* immutable hit, "mut" for a mutable hit, "panic" when the mutable branch
\* dereferences a nil r.Seq, "none" otherwise.
Classify(r) ==
    IF Sha1(r.V) = Target THEN "imm"
    ELSE IF Sha1(r.K \o Salt) = Target
         THEN IF ~r.HasSeq THEN "panic"
              ELSE IF Verify(r.K, Salt, r.Seq, r.V, ReplySig(r)) THEN "mut" ELSE "none"
         ELSE "none"

Candidate(r) ==
    IF Classify(r) = "imm" THEN FullGetResult(0, r.V, ReplySig(r), FALSE)
    ELSE FullGetResult(r.Seq, r.V, ReplySig(r), TRUE)

NoCand == FullGetResult(0, NilBytes, ZeroSig, FALSE)

\* res.TraversalQueryResult(addr): ResponseFrom and ClosestData of a reply.
TraversalQueryResult(hasR, r) ==
    IF ~hasR THEN [ResponseFrom |-> FALSE, ClosestData |-> NilData]
    ELSE [ResponseFrom |-> TRUE,
          ClosestData |-> IF r.HasToken THEN r.Token ELSE NilData]

\* tqr.ClosestData, _ = tqr.ClosestData.(string): the assertion yields the
\* string itself, or the zero string when ClosestData holds no string; the
\* result is stored back into the interface field, so it is a string.
AssertString(d) == IF d = NilData THEN EmptyString ELSE d

\* Lines 76-79: the result DoQuery hands to the engine.
FilterTqr(tqr) ==
    LET d == AssertString(tqr.ClosestData)
    IN  [ResponseFrom |-> IF d = NilData THEN FALSE ELSE tqr.ResponseFrom,
         ClosestData |-> d]

\* ---------------------------------------------------------------- variables

VARIABLES
    pc,         \* where the caller (Get or Put) is
    ret,        \* Get's result
    gotValue,   \* Get's gotValue
    err,        \* the named result err of Get / Put
    autoSeq,    \* Put's autoSeq
    put,        \* the arguments seqToPut was invoked with, in order
    tasks,      \* Put's write goroutines: node -> "none" | "run" | "done"
    writes,     \* the node writes issued (s.Put calls)
    ctxDone,    \* the caller's context is cancelled
    stalled,    \* op.Stalled() is ready
    stopped,    \* op.Stop() was called
    spc,        \* the supervisory goroutine: "none" | "wait" | "done"
    panicked,   \* a DoQuery goroutine panicked
    qpc,        \* per node, DoQuery: "idle" | "send" | "done"
    cand,       \* per node, the candidate DoQuery is sending
    closest,    \* op.Closest(): the elems (Addr, Data) the engine holds
    received,   \* the candidates the caller received from vChan
    exitBy      \* the select case the caller's loop ended on

vars == <<pc, ret, gotValue, err, autoSeq, put, tasks, writes, ctxDone, stalled, stopped, spc, panicked, qpc, cand,
          closest, received, exitBy>>

callVars == <<pc, ret, gotValue, err, autoSeq, put, tasks, writes, received,
              exitBy>>
queryVars == <<qpc, cand, closest, panicked>>
envVars == <<ctxDone, stalled, stopped, spc>>

InitCommon ==
    /\ ret = FullGetResult(0, NilBytes, ZeroSig, FALSE)
    /\ gotValue = FALSE
    /\ err = NoErr
    /\ autoSeq = 0
    /\ put = <<>>
    /\ tasks = [n \in Nodes |-> "none"]
    /\ writes = {}
    /\ ctxDone = FALSE
    /\ stalled = FALSE
    /\ stopped = FALSE
    /\ spc = "none"
    /\ panicked = FALSE
    /\ qpc = [n \in Nodes |-> "idle"]
    /\ cand = [n \in Nodes |-> NoCand]
    /\ closest = {}
    /\ exitBy = "none"

\* Get records the candidates it receives in order; Put, which only takes a
\* maximum, records the set of (Mutable, Seq) it read from them.
InitGet == pc = "g_start" /\ received = <<>> /\ InitCommon
InitPut == pc = "p_start" /\ received = {} /\ InitCommon

Running == ~panicked
Started == pc \notin {"g_start", "p_start"}
\* op.AddNodes(nodes) was given starting nodes: TraversalStartingNodes
\* returns none with its error.
Seeded == Started /\ err # StartErr

\* ------------------------------------------------------- the environment

\* The caller cancels the context (or its deadline passes).
Cancel ==
    /\ Running /\ ~ctxDone
    /\ pc \notin {"g_done", "p_done"}
    /\ ctxDone' = TRUE
    /\ UNCHANGED <<callVars, queryVars, stalled, stopped, spc>>

\* The engine has no query outstanding and nothing left to query: it offers
\* the stalled signal.
Stall ==
    /\ Running /\ Started /\ ~stalled
    /\ \A n \in Nodes : qpc[n] \in {"idle", "done"}
    /\ stalled' = TRUE
    /\ UNCHANGED <<callVars, queryVars, ctxDone, stopped, spc>>

\* After op.Stop() the engine's run loop returns and closes the stalled
\* channel, which is ready from then on.
EngineStopped ==
    /\ Running /\ stopped /\ ~stalled
    /\ stalled' = TRUE
    /\ UNCHANGED <<callVars, queryVars, ctxDone, stopped, spc>>

\* ------------------------------------------------------ startGetTraversal

\* The engine adds a node that responded to its closest set, with its data.
AddClosest(n, res) ==
    IF res.ResponseFrom THEN closest \cup {[Addr |-> n, Data |-> res.ClosestData]}
    ELSE closest

\* DoQuery, lines 41-80: node n's reply (or none) arrives and is classified.
\* A candidate is offered on vChan; any other reply runs DoQuery to its
\* return.  The engine queries the nodes in order of distance, here the node
\* number.
QueryReply(n, hasR, r) ==
    /\ Running /\ Seeded /\ ~stalled /\ ~stopped
    /\ qpc[n] = "idle"
    /\ \A m \in Nodes : m < n => qpc[m] # "idle"
    /\ IF hasR /\ Classify(r) = "panic"
       THEN /\ panicked' = TRUE
            /\ UNCHANGED <<qpc, cand, closest>>
       ELSE IF hasR /\ Classify(r) \in {"imm", "mut"}
       THEN /\ qpc' = [qpc EXCEPT ![n] = "send"]
            /\ cand' = [cand EXCEPT ![n] = Candidate(r)]
            /\ UNCHANGED <<panicked, closest>>
       ELSE /\ qpc' = [qpc EXCEPT ![n] = "done"]
            /\ closest' = AddClosest(n, FilterTqr(TraversalQueryResult(hasR, r)))
            /\ UNCHANGED <<cand, panicked>>
    /\ UNCHANGED <<callVars, envVars>>

\* DoQuery, lines 75-80, once its select has ended: the traversal result of
\* the reply r is returned to the engine.  Only the token of r is read from
\* here on, and the model draws it here.
Returned(n, r) ==
    /\ qpc' = [qpc EXCEPT ![n] = "done"]
    /\ cand' = [cand EXCEPT ![n] = NoCand]
    /\ closest' = AddClosest(n, FilterTqr(TraversalQueryResult(TRUE, r)))
    /\ UNCHANGED panicked

\* QueryTimeout firing only while the caller is still in its receive loop.
QueryTimeoutWhileConsumer(n, r) ==
    /\ Running /\ qpc[n] = "send"
    /\ pc \in {"g_select", "p_select"}
    /\ Returned(n, r)
    /\ UNCHANGED <<callVars, envVars>>

\* DoQuery, lines 59 and 69: queryCtx is done (its 8 second timeout, or the
\* engine's cancellation) before a consumer received the candidate, which is
\* dropped.
QueryTimeout(n, r) ==
    /\ Running /\ qpc[n] = "send"
    /\ Returned(n, r)
    /\ UNCHANGED <<callVars, envVars>>

\* The supervisory goroutine, lines 86-92.
SupervisorCancel ==
    /\ Running /\ spc = "wait" /\ ctxDone
    /\ stopped' = TRUE
    /\ spc' = "done"
    /\ UNCHANGED <<callVars, queryVars, ctxDone, stalled>>

SupervisorStalled ==
    /\ Running /\ spc = "wait" /\ stalled
    /\ spc' = "done"
    /\ UNCHANGED <<callVars, queryVars, ctxDone, stalled, stopped>>

\* startGetTraversal as Get and Put call it, lines 36-96: the operation and
\* its supervisory goroutine are started, then the starting nodes are
\* obtained, which may fail.
StartTraversal(startErr) ==
    /\ spc' = "wait"
    /\ err' = IF startErr THEN StartErr ELSE NoErr
    /\ UNCHANGED <<ctxDone, stalled, stopped>>

putVars == <<autoSeq, put, tasks, writes>>
getVars == <<ret, gotValue>>

\* -------------------------------------------------------------------- Get

\* Lines 104-109.
GetStart(startErr) ==
    /\ Running /\ pc = "g_start"
    /\ StartTraversal(startErr)
    /\ IF startErr
       THEN pc' = "g_done" /\ UNCHANGED <<ret, gotValue>>
       ELSE /\ pc' = "g_select"
            /\ ret' = [ret EXCEPT !.Seq = MinInt64]
            /\ gotValue' = FALSE
    /\ UNCHANGED <<putVars, received, exitBy, queryVars>>

\* GetStalled with the not-found error set whether or not a value was got.
GetStalledAlwaysNotFound ==
    /\ Running /\ pc = "g_select" /\ stalled
    /\ err' = NotFound
    /\ pc' = "g_exit"
    /\ exitBy' = "stalled"
    /\ UNCHANGED <<ret, gotValue, autoSeq, put, tasks, writes, received,
                   queryVars, envVars>>

\* GetStalled going back to the select instead of leaving the loop.
GetStalledLoops ==
    /\ Running /\ pc = "g_select" /\ stalled
    /\ err' = IF ~gotValue THEN NotFound ELSE err
    /\ pc' = "g_select"
    /\ exitBy' = "stalled"
    /\ UNCHANGED <<ret, gotValue, autoSeq, put, tasks, writes, received,
                   queryVars, envVars>>

\* Lines 112-115: the stalled case of the select.
GetStalled ==
    /\ Running /\ pc = "g_select" /\ stalled
    /\ err' = IF ~gotValue THEN NotFound ELSE err
    /\ pc' = "g_exit"
    /\ exitBy' = "stalled"
    /\ UNCHANGED <<getVars, putVars, received, queryVars, envVars>>

\* Reconcile with a strict comparison: an equal sequence does not replace.
ReconcileStrict(r, v) ==
    IF ~v.Mutable THEN v
    ELSE IF v.Seq > r.Seq THEN v ELSE r

\* Reconcile without the immutable case: every candidate is compared by Seq.
ReconcileBySeqOnly(r, v) ==
    IF v.Seq >= r.Seq THEN v ELSE r

\* Lines 119-125: the result after candidate v is received.
Reconcile(r, v) ==
    IF ~v.Mutable THEN v
    ELSE IF v.Seq >= r.Seq THEN v ELSE r

\* Lines 116-126: a candidate is received from node n's DoQuery.
GetReceive(n, r) ==
    /\ Running /\ pc = "g_select" /\ qpc[n] = "send"
    /\ LET v == cand[n]
       IN  /\ gotValue' = TRUE
           /\ ret' = Reconcile(ret, v)
           /\ pc' = IF ~v.Mutable THEN "g_exit" ELSE "g_select"
           /\ exitBy' = IF ~v.Mutable THEN "immutable" ELSE exitBy
           /\ received' = Append(received, v)
    /\ Returned(n, r)
    /\ UNCHANGED <<err, putVars, envVars>>

\* GetCancelled without the assignment of err.
GetCancelledNoErr ==
    /\ Running /\ pc = "g_select" /\ ctxDone
    /\ pc' = "g_exit"
    /\ exitBy' = "cancelled"
    /\ UNCHANGED <<ret, gotValue, err, autoSeq, put, tasks, writes, received,
                   queryVars, envVars>>

\* Lines 127-128: the cancellation case of the select.
GetCancelled ==
    /\ Running /\ pc = "g_select" /\ ctxDone
    /\ err' = CtxErr
    /\ pc' = "g_exit"
    /\ exitBy' = "cancelled"
    /\ UNCHANGED <<getVars, putVars, received, queryVars, envVars>>

\* Lines 130-132: op.Stop(), the stats, and the return.
GetReturn ==
    /\ Running /\ pc = "g_exit"
    /\ stopped' = TRUE
    /\ pc' = "g_done"
    /\ UNCHANGED <<getVars, err, putVars, received, exitBy, queryVars>>
    /\ UNCHANGED <<ctxDone, stalled, spc>>

\* -------------------------------------------------------------------- Put

\* Lines 142-150.
PutStart(startErr) ==
    /\ Running /\ pc = "p_start"
    /\ StartTraversal(startErr)
    /\ pc' = IF startErr THEN "p_done" ELSE "p_select"
    /\ autoSeq' = 0
    /\ UNCHANGED <<getVars, put, tasks, writes, received, exitBy, queryVars>>

\* NextAutoSeq without the comparison: the last mutable candidate's Seq.
NextAutoSeqLast(a, v) == IF v.Mutable THEN v.Seq ELSE a

\* Lines 154-156: autoSeq after candidate v is received.
NextAutoSeq(a, v) == IF v.Mutable /\ v.Seq > a THEN v.Seq ELSE a

\* Lines 153-160: a candidate is received from node n's DoQuery.
PutReceive(n, r) ==
    /\ Running /\ pc = "p_select" /\ qpc[n] = "send"
    /\ LET v == cand[n]
       IN  /\ autoSeq' = NextAutoSeq(autoSeq, v)
           /\ received' = received \cup {[Mutable |-> v.Mutable, Seq |-> v.Seq]}
    /\ Returned(n, r)
    /\ UNCHANGED <<pc, getVars, err, put, tasks, writes, exitBy, envVars>>

\* Line 161: the stalled case of the select.
PutStalled ==
    /\ Running /\ pc = "p_select" /\ stalled
    /\ pc' = "p_stop"
    /\ exitBy' = "stalled"
    /\ UNCHANGED <<getVars, err, putVars, received, queryVars, envVars>>

\* Lines 162-163: the cancellation case of the select.
PutCancelled ==
    /\ Running /\ pc = "p_select" /\ ctxDone
    /\ err' = CtxErr
    /\ pc' = "p_stop"
    /\ exitBy' = "cancelled"
    /\ UNCHANGED <<getVars, putVars, received, queryVars, envVars>>

\* PutStop without the call of op.Stop().
PutStopSkipped ==
    /\ Running /\ pc = "p_stop"
    /\ pc' = "p_build"
    /\ UNCHANGED <<ret, gotValue, err, autoSeq, put, tasks, writes, received,
                   exitBy, queryVars, envVars>>

\* Line 165: op.Stop().
PutStop ==
    /\ Running /\ pc = "p_stop"
    /\ stopped' = TRUE
    /\ pc' = "p_build"
    /\ UNCHANGED <<getVars, err, putVars, received, exitBy, queryVars>>
    /\ UNCHANGED <<ctxDone, stalled, spc>>

\* Line 167: put := seqToPut(autoSeq).
PutBuild ==
    /\ Running /\ pc = "p_build"
    /\ put' = Append(put, autoSeq)
    /\ pc' = "p_range"
    /\ UNCHANGED <<getVars, err, autoSeq, tasks, writes, received, exitBy>>
    /\ UNCHANGED <<queryVars, envVars>>

\* Lines 168-182: one goroutine is started per elem of op.Closest().
PutRange ==
    /\ Running /\ pc = "p_range"
    /\ tasks' = [n \in Nodes |->
                   IF \E e \in closest : e.Addr = n THEN "run" ELSE "none"]
    /\ pc' = "p_wait"
    /\ UNCHANGED <<getVars, err, autoSeq, put, writes, received, exitBy>>
    /\ UNCHANGED <<queryVars, envVars>>

\* ElemData reading some elem of the closest set, not node n's own.
ElemDataAny(n) == (CHOOSE e \in closest : TRUE).Data

\* The data of the elem the goroutine for node n was started with.
ElemData(n) == (CHOOSE e \in closest : e.Addr = n).Data

\* Lines 171-180: the write goroutine for node n: the s.Put call, whose
\* outcome res is the node's, and the assignment of the shared err.
WriteTask(n, res) ==
    /\ Running /\ pc = "p_wait" /\ tasks[n] = "run"
    /\ writes' = writes \cup {[Addr |-> n, Token |-> ElemData(n),
                               Item |-> put[Len(put)]]}
    /\ err' = res
    /\ tasks' = [tasks EXCEPT ![n] = "done"]
    /\ UNCHANGED <<pc, getVars, autoSeq, put, received, exitBy>>
    /\ UNCHANGED <<queryVars, envVars>>

\* The write goroutines that have assigned err (line 175).
ErrWriters == {n \in Nodes : tasks[n] = "done"}

\* PutReturn without wg.Wait().
PutReturnNoWait ==
    /\ Running /\ pc = "p_wait"
    /\ pc' = "p_done"
    /\ UNCHANGED <<ret, gotValue, err, autoSeq, put, tasks, writes, received,
                   exitBy, queryVars, envVars>>

\* Lines 183-185: wg.Wait(), the stats, and the return.
PutReturn ==
    /\ Running /\ pc = "p_wait"
    /\ \A n \in Nodes : tasks[n] # "run"
    /\ pc' = "p_done"
    /\ UNCHANGED <<getVars, err, putVars, received, exitBy>>
    /\ UNCHANGED <<queryVars, envVars>>

\* ---------------------------------------------------------- specifications

Traversal(vals, toks) ==
    \/ Cancel
    \/ Stall
    \/ EngineStopped
    \/ SupervisorCancel
    \/ SupervisorStalled
    \/ \E n \in Nodes : QueryReply(n, FALSE, CHOOSE r \in Replies(n, vals, toks) : TRUE)
    \/ \E n \in Nodes : \E r \in Replies(n, vals, toks) : QueryReply(n, TRUE, r)
    \/ \E n \in Nodes : \E r \in TokenReplies(n, toks) : QueryTimeout(n, r)

GetToks == {TRUE}
PutValues == {K0 \o Salt, <<4>>}

NextGet ==
    \/ \E e \in BOOLEAN : GetStart(e)
    \/ GetStalled
    \/ \E n \in Nodes : \E r \in TokenReplies(n, GetToks) : GetReceive(n, r)
    \/ GetCancelled
    \/ GetReturn
    \/ Traversal(Values, GetToks)

NextPut ==
    \/ \E e \in BOOLEAN : PutStart(e)
    \/ \E n \in Nodes : \E r \in TokenReplies(n, BOOLEAN) : PutReceive(n, r)
    \/ PutStalled
    \/ PutCancelled
    \/ PutStop
    \/ PutBuild
    \/ PutRange
    \/ \E n \in Nodes : \E res \in {NoErr, WriteErr} : WriteTask(n, res)
    \/ PutReturn
    \/ Traversal(PutValues, BOOLEAN)

SpecGet == InitGet /\ [][NextGet]_vars
SpecPut == InitPut /\ [][NextPut]_vars

\* DoQuery on its own: a traversal started by Get whose candidates nobody
\* receives, so that every reply of Replies is classified in every state of
\* the other queries.
NextQuery ==
    \/ GetStart(FALSE)
    \/ Stall
    \/ \E n \in Nodes : QueryReply(n, FALSE, CHOOSE r \in Replies(n, Values, GetToks) : TRUE)
    \/ \E n \in Nodes : \E r \in Replies(n, Values, GetToks) : QueryReply(n, TRUE, r)
    \/ \E n \in Nodes : \E r \in TokenReplies(n, GetToks) : QueryTimeout(n, r)

SpecQuery == InitGet /\ [][NextQuery]_vars

\* Put over immutable items: every reply carries the value whose hash is the
\* target, with or without a token.
FanOutValues == {K0 \o Salt}

NextFanOut ==
    \/ \E e \in BOOLEAN : PutStart(e)
    \/ \E n \in Nodes : \E r \in TokenReplies(n, BOOLEAN) : PutReceive(n, r)
    \/ PutStalled
    \/ PutCancelled
    \/ PutStop
    \/ PutBuild
    \/ PutRange
    \/ \E n \in Nodes : \E res \in {NoErr, WriteErr} : WriteTask(n, res)
    \/ PutReturn
    \/ Traversal(FanOutValues, BOOLEAN)

SpecFanOut == InitPut /\ [][NextFanOut]_vars

\* Get with the scheduling the runtime guarantees.  queryCtx's timer fires
\* (line 41), so no DoQuery stays in its select for ever; a select whose case
\* stays ready takes it in the end, the runtime choosing among the ready
\* cases at random (lines 111-129); straight-line code runs on.
FairValues == {K0 \o Salt, <<4>>}

NextGetFair ==
    \/ \E e \in BOOLEAN : GetStart(e)
    \/ GetStalled
    \/ \E n \in Nodes : \E r \in TokenReplies(n, GetToks) : GetReceive(n, r)
    \/ GetCancelled
    \/ GetReturn
    \/ Traversal(FairValues, GetToks)

GetFairness ==
    /\ \A n \in Nodes : WF_vars(\E r \in TokenReplies(n, GetToks) : QueryTimeout(n, r))
    /\ WF_vars(\E e \in BOOLEAN : GetStart(e))
    /\ WF_vars(GetStalled)
    /\ WF_vars(GetCancelled)
    /\ WF_vars(GetReturn)

SpecGetFair == InitGet /\ [][NextGetFair]_vars /\ GetFairness

\* ------------------------------------------------------------------ claims

\* The largest of a non-empty set of numbers.
Max(S) == CHOOSE m \in S : \A x \in S : x <= m

\* The position in a non-empty sequence of candidates of the last one that
\* has the largest sequence number.
LatestMaxIndex(cs) ==
    CHOOSE i \in 1..Len(cs) :
        /\ \A j \in 1..Len(cs) : cs[j].Seq <= cs[i].Seq
        /\ \A j \in (i + 1)..Len(cs) : cs[j].Seq < cs[i].Seq

AllMutable(cs) == \A i \in 1..Len(cs) : cs[i].Mutable

\* ret as Get initialises it (line 108).
EmptyRet == FullGetResult(MinInt64, NilBytes, ZeroSig, FALSE)

\* C1: when Get's loop ends on the stalled signal after mutable candidates
\* only, Get returns, with no error, the received candidate with the largest
\* sequence number, and among several with that number the one received last.
C1_GetReturnsLatestMaximum ==
    (pc = "g_done" /\ exitBy = "stalled" /\ received # <<>> /\ AllMutable(received))
        => (ret = received[LatestMaxIndex(received)] /\ err = NoErr)

\* Get returned on a stall after two different candidates with the same
\* sequence number, and its result is the second.
C1_Witness ==
    /\ pc = "g_done" /\ exitBy = "stalled"
    /\ Len(received) >= 2
    /\ received[Len(received) - 1].Seq = received[Len(received)].Seq
    /\ received[Len(received) - 1] # received[Len(received)]
    /\ \A i \in 1..Len(received) : received[i].Seq <= received[Len(received)].Seq
    /\ ret = received[Len(received)]

\* C2: an immutable candidate, once received, is the last candidate Get
\* receives: the loop has ended, the result is that candidate, there is no
\* error, and Get returns with the traversal stopped.
C2_ImmutableWinsAndEnds ==
    \A i \in 1..Len(received) :
        ~received[i].Mutable =>
            /\ i = Len(received)
            /\ pc \in {"g_exit", "g_done"}
            /\ exitBy = "immutable"
            /\ ret = received[i]
            /\ err = NoErr
            /\ (pc = "g_done" => stopped)

\* Get returned an immutable candidate received after a mutable candidate of
\* a larger sequence number.
C2_Witness ==
    /\ pc = "g_done"
    /\ Len(received) >= 2
    /\ received[1].Mutable /\ received[1].Seq > 0
    /\ ~received[Len(received)].Mutable
    /\ ret = received[Len(received)]

\* C3: Get returns the not-found error exactly when its loop ended on the
\* stalled signal with no candidate received; when it ended on the stalled
\* signal after a candidate, Get returns the recorded best with no error.
C3_NotFoundIffStalledEmpty ==
    pc = "g_done" =>
        /\ (err = NotFound) <=> (exitBy = "stalled" /\ received = <<>>)
        /\ (exitBy = "stalled" /\ received # <<>>) =>
               (err = NoErr /\ gotValue /\ ret = received[LatestMaxIndex(received)])

\* Get returned not-found although a node had replied: its reply was no
\* valid candidate, or the candidate was dropped.
C3_Witness ==
    /\ pc = "g_done" /\ err = NotFound
    /\ \E n \in Nodes : qpc[n] = "done"

\* C4: with the context cancelled and no candidate received, no step of Get
\* sets the not-found error.
C4_CancelNeverNotFound ==
    [][(pc = "g_select" /\ ctxDone /\ received = <<>>) => err' # NotFound]_vars

\* The mutable sequence numbers Put read from the candidates it received.
MutableSeqs == {c.Seq : c \in {x \in received : x.Mutable}}

\* C5 as stated, for a discovery pass that ended on the stalled signal: the
\* builder is invoked with exactly the largest sequence number of the mutable
\* candidates received, and with 0 when there is none.
C5_BuilderGetsExactMaximum ==
    (put # <<>> /\ exitBy = "stalled") =>
        put = << IF MutableSeqs = {} THEN 0 ELSE Max(MutableSeqs) >>

\* C5, amended: the builder is invoked with the largest of 0 and the sequence
\* numbers of the mutable candidates received; during the discovery pass
\* autoSeq is that number, whatever immutable candidates were received, and
\* the pass ends on the stalled signal or on cancellation only.
C5_BuilderGetsMaximumOrZero ==
    /\ pc = "p_select" => autoSeq = Max({0} \cup MutableSeqs)
    /\ put # <<>> => put = << Max({0} \cup MutableSeqs) >>
    /\ pc \in {"p_stop", "p_build", "p_range", "p_wait"} =>
           exitBy \in {"stalled", "cancelled"}

\* The builder was invoked with a positive sequence number after a smaller
\* mutable candidate and an immutable candidate were received as well.
C5_Witness ==
    /\ put # <<>> /\ put[1] > 0
    /\ Cardinality(received) >= 2
    /\ \E c \in received : ~c.Mutable \/ c.Seq < put[1]

\* C6: when the discovery pass ended on the stalled signal and the context is
\* not cancelled, Put returns no error.
C6_PutSucceedsAfterDiscovery ==
    (pc = "p_done" /\ exitBy = "stalled" /\ ~ctxDone) => err = NoErr

\* C7: when the discovery pass ended on cancellation, the builder is not
\* invoked, no node write is issued, and Put returns the cancellation error.
C7_CancelAbortsPut ==
    exitBy = "cancelled" =>
        /\ put = <<>>
        /\ writes = {}
        /\ (pc = "p_done" => err = CtxErr)

\* C8: every node write goes to a node whose reply carried a write token, and
\* is issued with that token.  Stated for the puts whose discovery pass ended
\* on the stalled signal, the case in which Put is meant to write.
C8_WritesOnlyWithToken ==
    exitBy = "stalled" => \A w \in writes : w.Token = TokenOf(w.Addr)

\* C9 as stated: when Get's loop ended on cancellation, Get returns the
\* cancellation error and an item that carries the value, signature or
\* sequence number of no mutable candidate received.
C9_CancelDiscardsResult ==
    (pc = "g_done" /\ exitBy = "cancelled") =>
        /\ err = CtxErr
        /\ \A i \in 1..Len(received) :
               /\ ret.V # received[i].V
               /\ ret.Sig # received[i].Sig
               /\ ret.Seq # received[i].Seq

\* C9, amended: when Get's loop ended on cancellation, Get returns the
\* cancellation error, and the item it returns is the one recorded so far: the
\* best mutable candidate received, or the item as initialised.
C9_CancelKeepsRecordedResult ==
    (pc = "g_done" /\ exitBy = "cancelled") =>
        /\ err = CtxErr
        /\ ret = IF received = <<>> THEN EmptyRet
                 ELSE received[LatestMaxIndex(received)]

\* Get returned on cancellation after it had received a candidate.
C9_Witness ==
    /\ pc = "g_done" /\ exitBy = "cancelled"
    /\ received # <<>>
    /\ ret = received[LatestMaxIndex(received)]
    /\ ret.Mutable

\* C10: no two write goroutines assign the same variable.  Stated for the
\* puts whose discovery pass ended on the stalled signal.
C10_NoSharedErr == exitBy = "stalled" => Cardinality(ErrWriters) <= 1

\* The write goroutines Put launched, and those that have finished.
Launched == {n \in Nodes : tasks[n] # "none"}
Finished == {n \in Nodes : tasks[n] = "done"}

\* C11: when Put has returned, every write goroutine it launched has
\* finished: none is still running, and each has issued its write.
C11_ReturnAfterAllWrites ==
    pc = "p_done" =>
        /\ Finished = Launched
        /\ {w.Addr : w \in writes} = Launched

\* Put returned after it had launched a write goroutine for every node.
C11_Witness ==
    /\ pc = "p_done"
    /\ Launched = Nodes
    /\ Finished = Nodes

\* What each phase of Put has done, and what it has not done yet.
PhaseState(p) ==
    CASE p = "p_start" -> exitBy = "none" /\ put = <<>> /\ Launched = {} /\ writes = {}
      [] p = "p_select" -> exitBy = "none" /\ put = <<>> /\ Launched = {} /\ writes = {}
      [] p = "p_stop" -> exitBy # "none" /\ put = <<>> /\ Launched = {} /\ writes = {}
      [] p = "p_build" -> exitBy # "none" /\ stopped /\ put = <<>> /\ Launched = {} /\ writes = {}
      [] p = "p_range" -> exitBy # "none" /\ stopped /\ Len(put) = 1 /\ Launched = {} /\ writes = {}
      [] p = "p_wait" -> exitBy # "none" /\ stopped /\ Len(put) = 1
      [] p = "p_done" -> \/ exitBy # "none" /\ stopped /\ Len(put) = 1
                         \/ exitBy = "none" /\ err = StartErr /\ put = <<>> /\ Launched = {} /\ writes = {}

\* C12: Put's phases follow one another in order: in each phase the earlier
\* ones have acted and the later ones have not, and only the return on a start
\* error skips any.  The builder is invoked at most once, after the discovery
\* loop has exited and the traversal was stopped; no write is issued before
\* the builder returned; every write carries the builder's item.
C12_PhasesInOrder ==
    /\ PhaseState(pc)
    /\ Len(put) <= 1
    /\ put # <<>> => (stopped /\ exitBy # "none")
    /\ writes # {} => (put # <<>> /\ \A w \in writes : w.Item = put[1])
    /\ Launched # {} => put # <<>>

\* Put returned after a discovery pass that received a candidate and ended on
\* the stalled signal, and both of its writes carry the builder's item.
C12_Witness ==
    /\ pc = "p_done" /\ exitBy = "stalled"
    /\ received # {}
    /\ Len(put) = 1
    /\ Cardinality(writes) >= 2
    /\ \A w \in writes : w.Item = put[1]

\* An immutable hit: the hash of the reply's value is the target.
ImmHit(r) == Sha1(r.V) = Target

\* A mutable hit: the hash of public key and salt is the target, and the
\* signature verifies over public key, salt, the reply's sequence number and
\* the value.
MutHit(r) ==
    /\ Sha1(r.K \o Salt) = Target
    /\ r.HasSeq
    /\ ReplySig(r) = SigOf(r.K, Salt, r.Seq, r.V)

\* C13: DoQuery offers a candidate on vChan exactly for the replies that are
\* an immutable or a mutable hit: an immutable hit (a mutable hit or not) with
\* the mutable flag false, any other mutable hit with the mutable flag true
\* and the reply's sequence number, each with the reply's value and signature.
C13_CandidateIffHit ==
    [][ \A n \in Nodes : \A r \in Replies(n, Values, GetToks) :
          ((qpc'[n] # qpc[n] \/ panicked') /\ QueryReply(n, TRUE, r)) =>
            /\ (qpc'[n] = "send") <=> (ImmHit(r) \/ MutHit(r))
            /\ ImmHit(r) =>
                  cand'[n] = FullGetResult(0, r.V, ReplySig(r), FALSE)
            /\ (MutHit(r) /\ ~ImmHit(r)) =>
                  cand'[n] = FullGetResult(r.Seq, r.V, ReplySig(r), TRUE)
      ]_vars

\* A reply that is both an immutable and a mutable hit is being offered, as
\* immutable, while another node's mutable hit is being offered too.
C13_Witness ==
    \E n, m \in Nodes :
        /\ qpc[n] = "send" /\ qpc[m] = "send"
        /\ cand[n] = FullGetResult(0, K0 \o Salt, SigOf(K0, Salt, 0, K0 \o Salt), FALSE)
        /\ cand[m].Mutable /\ cand[m].Seq # 0

\* C14: DoQuery completes on every reply: no reply makes it panic.
C14_QueryAlwaysCompletes == ~panicked

\* C15: a DoQuery that is offering a candidate does not stay there for ever:
\* unless the process has ended, it leaves its select, either because the
\* caller received the candidate or because queryCtx was done, and in both
\* cases it hands its traversal result to the engine; when queryCtx ends the
\* offer the candidate is dropped and the caller is left as it was.
C15_PublishNeverBlocks ==
    /\ \A n \in Nodes : (qpc[n] = "send") ~> (qpc[n] = "done" \/ panicked)
    /\ [][ \A n \in Nodes :
             (qpc[n] = "send" /\ qpc'[n] # "send") =>
                /\ qpc'[n] = "done"
                /\ \E e \in closest' : e.Addr = n
                /\ (received' = received) => UNCHANGED callVars
          ]_vars

\* Get has returned on an immutable candidate while another DoQuery is still
\* offering a mutable candidate that nobody will receive.
C15_Witness ==
    /\ pc = "g_done" /\ exitBy = "immutable"
    /\ \E n \in Nodes : qpc[n] = "send" /\ cand[n].Mutable

\* C16: when the supervisory goroutine ends, on whichever of its two signals,
\* it has called op.Stop().
C16_SupervisorStops ==
    [][(spc = "wait" /\ spc' = "done") => stopped']_vars

\* The nodes of the elems of the closest set.
ClosestAddrs == {e.Addr : e \in closest}

\* C17: the fan-out starts one write goroutine for each elem the closest set
\* holds when it is ranged over, and for no other node; each goroutine issues
\* one write, to its elem's node with its elem's data as the token; no node
\* is written to twice.
C17_OneWritePerElem ==
    [][ /\ (pc = "p_range" /\ pc' = "p_wait") => Launched' = ClosestAddrs
        /\ (pc = "p_wait") => Launched' = Launched
        /\ \A n \in Nodes :
              (tasks[n] = "run" /\ tasks'[n] = "done") =>
                 /\ \A w \in writes : w.Addr # n
                 /\ \E e \in closest :
                       /\ e.Addr = n
                       /\ writes' = writes \cup {[Addr |-> n, Token |-> e.Data, Item |-> put[1]]}
        /\ (writes' # writes) => \E n \in Nodes : tasks[n] = "run" /\ tasks'[n] = "done"
        /\ \A e1, e2 \in closest' : e1.Addr = e2.Addr => e1 = e2
      ]_vars

\* Put returned after writing to two nodes whose elems carry different data,
\* each write with its own node's.
C17_Witness ==
    /\ pc = "p_done"
    /\ \E w1, w2 \in writes :
          /\ w1.Addr # w2.Addr /\ w1.Token # w2.Token
          /\ [Addr |-> w1.Addr, Data |-> w1.Token] \in closest
          /\ [Addr |-> w2.Addr, Data |-> w2.Token] \in closest

\* C18: when Get or Put has returned, op.Stop() has been called.
C18_StopBeforeReturn == pc \in {"g_done", "p_done"} => stopped

\* Once the traversal has signalled stalled or the context is cancelled while
\* Get is in its loop, Get returns, unless the process has ended; and Get
\* leaves its start in any case.
GetEventuallyReturns ==
    /\ (pc = "g_select" /\ (stalled \/ ctxDone)) ~> (pc = "g_done" \/ panicked)
    /\ (pc = "g_start") ~> (pc # "g_start")

====
